---- MODULE Spec2Model ----
(***************************************************************************)
(* Model of the fitness planner of pages/index.tsx: the energy model and   *)
(* calorie target planner (dailyCaloriesForTarget), the catalog filter     *)
(* (filterMeals and the allergen exclusion of Home), the meal plan         *)
(* assembler (buildMealPlan) and the workout selection of Home.            *)
(*                                                                         *)
(* Numbers.  The program computes with JavaScript numbers.  The model      *)
(* computes with exact rationals: every number a form field can hold is    *)
(* an integer count of 1/Den units, and every derived quantity is a        *)
(* numerator over a denominator that is stated next to it.  Math.round is  *)
(* Round (half rounds towards +infinity, as in JavaScript).                *)
(*                                                                         *)
(* Text.  A string is a sequence of one-character strings, so that split,  *)
(* trim, toLowerCase and includes are computed and not assumed.            *)
(***************************************************************************)
EXTENDS Integers, Sequences, FiniteSets, TLC

VARIABLES
    form,           \* Home: the form state (useState)
    dietData,       \* the meal catalog (../data/diet.json)
    workoutPlans,   \* the workout catalog (../data/workouts.json)
    rev,            \* which copy of Home is mounted (1, 2)
    args,           \* dailyCaloriesForTarget: the argument record of the call
    metrics,        \* Home: metrics (result of dailyCaloriesForTarget)
    allergens,      \* Home: allergens
    mealsFiltered,  \* Home: mealsFiltered
    buildArgs,      \* buildMealPlan: the argument record of the call
    pool,           \* buildMealPlan: pool
    plan,           \* buildMealPlan: plan
    i,              \* buildMealPlan: loop counter i
    mealPlan,       \* Home: mealPlan (result of buildMealPlan)
    workouts,       \* Home: workouts
    error,          \* the exception thrown by the computation, "none" if none
    pc,             \* position of the computation under way
    events          \* Home: the number of change events handled so far

vars == <<form, dietData, workoutPlans, rev, args, metrics, allergens,
          mealsFiltered, buildArgs, pool, plan, i, mealPlan, workouts, error,
          pc, events>>

(***************************************************************************)
(* Bounds                                                                  *)
(***************************************************************************)
\* a form number is an integer count of 1/Den units
Den == 2

\* longest meal catalog and longest pool handed to buildMealPlan
MaxCatalog == 3

\* longest workout catalog
MaxWorkouts == 2

\* longest restriction text entered
MaxText == 3

\* the number of change events Home handles in one run
MaxEvents == 2

(***************************************************************************)
(* Arithmetic helpers                                                      *)
(***************************************************************************)
Abs(n) == IF n < 0 THEN -n ELSE n

Max(a, b) == IF a >= b THEN a ELSE b

Min(a, b) == IF a <= b THEN a ELSE b

\* Math.floor in the place of Math.round
RoundDown(n, d) == n \div d

\* Math.round(n/d) for d > 0: floor(n/d + 1/2)
Round(n, d) == (2 * n + d) \div (2 * d)

(***************************************************************************)
(* Energy model and calorie target planner                                 *)
(***************************************************************************)
\* activityFactors, as numerators over FactorDen
FactorDen == 40

activityFactors ==
    [sedentary |-> 48, light |-> 55, moderate |-> 62, active |-> 69, very |-> 76]

\* mifflin: the result is a numerator over BmrDen
BmrDen == 4 * Den

\* mifflin with the sign of the height term wrong
mifflinMinusHeight(sex, weightKg, heightCm, age) ==
    LET base == 40 * weightKg - 25 * heightCm - 20 * age
    IN  IF sex = "male" THEN base + 5 * BmrDen ELSE base - 161 * BmrDen

\* mifflin with the constants of the two sexes exchanged
mifflinSexSwapped(sex, weightKg, heightCm, age) ==
    LET base == 40 * weightKg + 25 * heightCm - 20 * age
    IN  IF sex = "male" THEN base - 161 * BmrDen ELSE base + 5 * BmrDen

mifflin(sex, weightKg, heightCm, age) ==
    LET base == 40 * weightKg + 25 * heightCm - 20 * age
    IN  IF sex = "male" THEN base + 5 * BmrDen ELSE base - 161 * BmrDen

clamp(n, lo, hi) == Max(lo, Min(hi, n))

\* capFor with the last branch of the conditional lost: every goal that is
\* not fat_loss is capped at 600
capForNoZero(explicitGoal) ==
    IF explicitGoal = "fat_loss" THEN 1000 ELSE 600

\* the cap on the daily change, by goal
capFor(explicitGoal) ==
    IF explicitGoal = "fat_loss" THEN 1000
    ELSE IF explicitGoal = "muscle_gain" THEN 600 ELSE 0

\* denominator of tdee
TdeeDen == BmrDen * FactorDen

\* days with a floor of one week in the place of one day
daysOfWeekFloor(weeks) == Max(7, Round(weeks * 7, Den))

\* days = Math.max(1, Math.round(weeks * 7))
daysOf(weeks) == Max(1, Round(weeks * 7, Den))

\* dailyChange = totalKcalChange / days, as a numerator over Den * days
dailyChangeOf(a) == (a.targetWeight - a.currentWeight) * 7700

\* the change with its direction taken from the goal: a deficit for
\* fat_loss, a surplus for any other goal
adjustedChangeOfByGoal(a) ==
    LET days == daysOf(a.weeks)
        cap  == capFor(a.explicitGoal)
        size == Min(Abs(dailyChangeOf(a)), cap * Den * days)
    IN  IF a.explicitGoal = "fat_loss" THEN -size ELSE size

\* adjustedChange = clamp(dailyChange, -cap, cap), a numerator over Den * days
adjustedChangeOf(a) ==
    LET days == daysOf(a.weeks)
        cap  == capFor(a.explicitGoal)
    IN  clamp(dailyChangeOf(a), (-cap) * Den * days, cap * Den * days)

\* the value returned in the dailyChange field
returnedDailyChange(a) == Round(dailyChangeOf(a), Den * daysOf(a.weeks))

\* nan: activityFactors[activity] is undefined, so tdee and targetCals are NaN
\* (their integer fields then hold 0 and mean nothing)
dailyCaloriesForTarget(a) ==
    LET bmr   == mifflin(a.sex, a.weightKg, a.heightCm, a.age)
        known == a.activity \in DOMAIN activityFactors
        tdee  == IF known THEN bmr * activityFactors[a.activity] ELSE 0
        days  == daysOf(a.weeks)
        adjustedChange == adjustedChangeOf(a)
        targetCals ==
            Round(tdee * days + adjustedChange * (TdeeDen \div Den),
                  TdeeDen * days)
    IN  [bmr         |-> Round(bmr, BmrDen),
         tdee        |-> IF known THEN Round(tdee, TdeeDen) ELSE 0,
         targetCals  |-> IF known THEN targetCals ELSE 0,
         dailyChange |-> returnedDailyChange(a),
         nan         |-> ~known]

(***************************************************************************)
(* Text                                                                    *)
(***************************************************************************)
\* the upper-case letters that occur in the model's texts
UpperToLower == [E |-> "e", D |-> "d", R |-> "r", V |-> "v"]

\* String.prototype.toLowerCase
toLowerCase(s) ==
    [k \in 1..Len(s) |->
        IF s[k] \in DOMAIN UpperToLower THEN UpperToLower[s[k]] ELSE s[k]]

\* String.prototype.trim: strips the white space at both ends
RECURSIVE trim(_)
trim(s) ==
    IF s = <<>> THEN s
    ELSE IF Head(s) = " " THEN trim(Tail(s))
    ELSE IF s[Len(s)] = " " THEN trim(SubSeq(s, 1, Len(s) - 1))
    ELSE s

\* position of the first sep in s, 0 when there is none
indexOf(s, sep) ==
    IF \E k \in 1..Len(s) : s[k] = sep
    THEN CHOOSE k \in 1..Len(s) :
            s[k] = sep /\ \A j \in 1..(k - 1) : s[j] # sep
    ELSE 0

\* String.prototype.split(sep): the pieces between the separators, "" included
RECURSIVE split(_, _)
split(s, sep) ==
    LET k == indexOf(s, sep)
    IN  IF k = 0 THEN <<s>>
        ELSE <<SubSeq(s, 1, k - 1)>> \o split(SubSeq(s, k + 1, Len(s)), sep)

\* includes that looks at the start of the text only (startsWith)
includesAtStart(text, a) ==
    Len(a) <= Len(text) /\ SubSeq(text, 1, Len(a)) = a

\* String.prototype.includes: a occurs in text as a contiguous piece
includes(text, a) ==
    \E k \in 0..(Len(text) - Len(a)) : SubSeq(text, k + 1, k + Len(a)) = a

\* Array.prototype.join(sep) on an array of strings
RECURSIVE join(_, _)
join(strs, sep) ==
    IF strs = <<>> THEN <<>>
    ELSE IF Len(strs) = 1 THEN strs[1]
    ELSE strs[1] \o sep \o join(Tail(strs), sep)

\* Array.prototype.includes on an array of strings
tagsInclude(tags, t) == \E k \in 1..Len(tags) : tags[k] = t

(***************************************************************************)
(* Catalog filter                                                          *)
(***************************************************************************)
\* the DietPref values, as texts
balanced == <<"b", "a", "l", "a", "n", "c", "e", "d">>

indian_veg == <<"i", "n", "d", "i", "a", "n", "_", "v", "e", "g">>

indian_nonveg == <<"i", "n", "d", "i", "a", "n", "_", "n", "o", "n", "v", "e", "g">>

vegan == <<"v", "e", "g", "a", "n">>

nonveg_global == <<"n", "o", "n", "v", "e", "g", "_", "g", "l", "o", "b", "a", "l">>

DietPref == {balanced, indian_veg, indian_nonveg, vegan, nonveg_global}

\* the test with the tags of the two extra clauses exchanged
keepsMealSwapped(m, pref) ==
    \/ tagsInclude(m.tags, pref)
    \/ (pref = balanced /\ tagsInclude(m.tags, nonveg_global))
    \/ (pref = nonveg_global /\ tagsInclude(m.tags, balanced))

\* the test of filterMeals on one meal
keepsMeal(m, pref) ==
    \/ tagsInclude(m.tags, pref)
    \/ (pref = balanced /\ tagsInclude(m.tags, balanced))
    \/ (pref = nonveg_global /\ tagsInclude(m.tags, nonveg_global))

\* filterMeals written as a removal in place inside a forward loop: after a
\* removal the index still advances, so the meal after a removed one is
\* kept without being tested
RECURSIVE filterMealsSkipping(_, _)
filterMealsSkipping(meals, pref) ==
    IF meals = <<>> THEN <<>>
    ELSE IF keepsMeal(meals[1], pref)
         THEN <<meals[1]>> \o filterMealsSkipping(Tail(meals), pref)
    ELSE IF Len(meals) = 1 THEN <<>>
    ELSE <<meals[2]>> \o filterMealsSkipping(SubSeq(meals, 3, Len(meals)), pref)

filterMeals(meals, pref) == SelectSeq(meals, LAMBDA m : keepsMeal(m, pref))

\* Home: allergens = restrictions.split(",").map(trim, toLowerCase).filter(Boolean)
allergensOf(restrictions) ==
    LET pieces  == split(restrictions, ",")
        cleaned == [k \in 1..Len(pieces) |-> toLowerCase(trim(pieces[k]))]
    IN  SelectSeq(cleaned, LAMBDA s : s # <<>>)

\* the text the allergens are looked up in
mealText(m) == toLowerCase(m.name \o <<" ">> \o join(m.tags, <<" ">>))

\* allergens.some(a => text.includes(a))
hasAllergen(m, algs) ==
    \E k \in 1..Len(algs) : includes(mealText(m), algs[k])

\* the exclusion returning the kept meals twice over
excludeAllergensTwice(base, algs) ==
    SelectSeq(base, LAMBDA m : ~hasAllergen(m, algs)) \o
    SelectSeq(base, LAMBDA m : ~hasAllergen(m, algs))

\* the allergen exclusion of Home, applied to base
excludeAllergens(base, algs) == SelectSeq(base, LAMBDA m : ~hasAllergen(m, algs))

\* Home: mealsFiltered
mealsFilteredOf(catalog, pref, algs) ==
    excludeAllergens(filterMeals(catalog, pref), algs)

(***************************************************************************)
(* Meal plan assembler                                                     *)
(***************************************************************************)
\* the value of an array element that does not exist
Undefined == [undefined |-> TRUE]

\* pool[idx], idx counted from 0 as in the source
at(arr, idx) == IF idx + 1 \in 1..Len(arr) THEN arr[idx + 1] ELSE Undefined

\* splice with the removal forgotten: the pool keeps the picked meal
spliceKeeps(arr, idx) == arr

\* pool.splice(idx, 1), idx counted from 0
splice(arr, idx) ==
    IF idx + 1 \in 1..Len(arr)
    THEN SubSeq(arr, 1, idx) \o SubSeq(arr, idx + 2, Len(arr))
    ELSE arr

\* the distance without Math.abs
diffSigned(m, a) == m.calories * a.mealsPerDay - a.totalCals * Den

\* d = Math.abs(m.calories - perMeal) with perMeal = totalCals / mealsPerDay,
\* as a numerator over a.mealsPerDay (positive whenever the loop body runs)
diff(m, a) == Abs(m.calories * a.mealsPerDay - a.totalCals * Den)

\* let bestDiff = Infinity: a value no distance is below
Infinity == -1

\* the inner loop with d <= bestDiff as its test: the last nearest element
RECURSIVE innerLoopLastTie(_, _, _, _, _)
innerLoopLastTie(arr, a, j, bestIdx, bestDiff) ==
    IF j >= Len(arr) THEN bestIdx
    ELSE IF bestDiff = Infinity \/ diff(at(arr, j), a) <= bestDiff
         THEN innerLoopLastTie(arr, a, j + 1, j, diff(at(arr, j), a))
         ELSE innerLoopLastTie(arr, a, j + 1, bestIdx, bestDiff)

\* the inner loop from index j on: for (let j = 0; j < pool.length; j++)
\* { d = |pool[j].calories - perMeal|; if (d < bestDiff) ... } (0-based)
RECURSIVE innerLoop(_, _, _, _, _)
innerLoop(arr, a, j, bestIdx, bestDiff) ==
    IF j >= Len(arr) THEN bestIdx
    ELSE IF bestDiff = Infinity \/ diff(at(arr, j), a) < bestDiff
         THEN innerLoop(arr, a, j + 1, j, diff(at(arr, j), a))
         ELSE innerLoop(arr, a, j + 1, bestIdx, bestDiff)

\* bestIdx after the inner loop (0-based; 0 on an empty pool)
bestIdxOf(arr, a) == innerLoop(arr, a, 0, 0, Infinity)

\* the loop test i < mealsPerDay
loopTest(n, a) == n * Den < a.mealsPerDay

RECURSIVE sumOf(_, _)
sumOf(ms, f) == IF ms = <<>> THEN 0 ELSE ms[1][f] + sumOf(Tail(ms), f)

\* the reduce with acc.carbs += m.fat and acc.fat += m.carbs
totalsOfSwapped(ms) ==
    [calories |-> sumOf(ms, "calories"), protein |-> sumOf(ms, "protein"),
     carbs    |-> sumOf(ms, "fat"),      fat     |-> sumOf(ms, "carbs")]

\* plan.reduce(...): the totals of a plan without undefined entries
totalsOf(ms) ==
    [calories |-> sumOf(ms, "calories"), protein |-> sumOf(ms, "protein"),
     carbs    |-> sumOf(ms, "carbs"),    fat     |-> sumOf(ms, "fat")]

NoPlan == [plan |-> <<>>, totals |-> totalsOf(<<>>)]

\* the array of the caller after a splice of the pool, were the pool the
\* array itself (const pool = meals)
callerMealsAliased(meals, newPool) == newPool

\* the array of the caller after a splice of the pool: the pool is a copy
\* (const pool = [...meals]), the array of the caller keeps its elements
callerMeals(meals, newPool) == meals

\* the state of the loop: const plan = []; const pool = [...meals]; i = 0
loopStart(a) == [pool |-> a.meals, plan |-> <<>>, i |-> 0]

\* one iteration of the outer loop: pick, push, splice
pickStep(st, a) ==
    LET bestIdx == bestIdxOf(st.pool, a)
    IN  [pool |-> splice(st.pool, bestIdx),
         plan |-> Append(st.plan, at(st.pool, bestIdx)),
         i    |-> st.i + 1]

\* reading m.calories of an undefined entry throws a TypeError
reduceThrows(ms) == \E k \in 1..Len(ms) : ms[k] = Undefined

\* the value returned for a plan without undefined entries
resultOf(ms) == [plan |-> ms, totals |-> totalsOf(ms)]

\* the outer loop run to its end: for (let i = 0; i < mealsPerDay; i++)
RECURSIVE buildLoop(_, _)
buildLoop(st, a) ==
    IF loopTest(st.i, a) THEN buildLoop(pickStep(st, a), a) ELSE st

\* buildMealPlan as one call: whether it throws, the value it returns and
\* the elements the array of the caller holds afterwards
buildMealPlan(a) ==
    LET st == buildLoop(loopStart(a), a)
    IN  [threw |-> reduceThrows(st.plan),
         value |-> IF reduceThrows(st.plan) THEN NoPlan ELSE resultOf(st.plan),
         meals |-> callerMeals(a.meals, st.pool)]

BuildStart ==
    /\ pc = "call"
    /\ LET st == loopStart(buildArgs)
       IN  /\ pool' = st.pool
           /\ plan' = st.plan
           /\ i' = st.i
    /\ pc' = "loop"
    /\ UNCHANGED <<events, form, dietData, workoutPlans, rev, args, metrics,
                   allergens, mealsFiltered, buildArgs, mealPlan, workouts,
                   error>>

BuildPick ==
    /\ pc = "loop"
    /\ loopTest(i, buildArgs)
    /\ LET st == pickStep([pool |-> pool, plan |-> plan, i |-> i], buildArgs)
       IN  /\ pool' = st.pool
           /\ plan' = st.plan
           /\ i' = st.i
           /\ buildArgs' =
                  [buildArgs EXCEPT !.meals = callerMeals(@, st.pool)]
    /\ UNCHANGED <<events, form, dietData, workoutPlans, rev, args, metrics,
                   allergens, mealsFiltered, mealPlan, workouts, error, pc>>

\* the totals and the return
BuildTotals ==
    /\ pc = "loop"
    /\ ~loopTest(i, buildArgs)
    /\ IF reduceThrows(plan)
       THEN /\ error' = "TypeError"
            /\ pc' = "threw"
            /\ UNCHANGED mealPlan
       ELSE /\ mealPlan' = resultOf(plan)
            /\ pc' = "returned"
            /\ UNCHANGED error
    /\ UNCHANGED <<events, form, dietData, workoutPlans, rev, args, metrics,
                   allergens, mealsFiltered, buildArgs, pool, plan, i,
                   workouts>>

(***************************************************************************)
(* Workout selection                                                       *)
(***************************************************************************)
\* level with the two boundaries exclusive
levelOfStrict(weeks) ==
    IF weeks < 8 * Den THEN "beginner"
    ELSE IF weeks < 20 * Den THEN "intermediate" ELSE "advanced"

\* Home: level
levelOf(weeks) ==
    IF weeks <= 8 * Den THEN "beginner"
    ELSE IF weeks <= 20 * Den THEN "intermediate" ELSE "advanced"

\* Home: normalizedGoal
normalizedGoalOf(goal) == IF goal = "maintain" THEN "general_fitness" ELSE goal

\* the fallbacks with the second and the third tier exchanged: level before goal
workoutsLevelFirst(all, goal, level) ==
    LET ng == normalizedGoalOf(goal)
        f1 == SelectSeq(all, LAMBDA w : w.goal = ng /\ w.level = level)
        f2 == IF Len(f1) = 0 THEN SelectSeq(all, LAMBDA w : w.level = level)
              ELSE f1
        f3 == IF Len(f2) = 0 THEN SelectSeq(all, LAMBDA w : w.goal = ng) ELSE f2
    IN  IF Len(f3) = 0 THEN all ELSE f3

\* the workouts of the first copy of Home: goal and level, then goal, then
\* level, then all
workoutsWithFallbacks(all, goal, level) ==
    LET ng == normalizedGoalOf(goal)
        f1 == SelectSeq(all, LAMBDA w : w.goal = ng /\ w.level = level)
        f2 == IF Len(f1) = 0 THEN SelectSeq(all, LAMBDA w : w.goal = ng) ELSE f1
        f3 == IF Len(f2) = 0 THEN SelectSeq(all, LAMBDA w : w.level = level)
              ELSE f2
    IN  IF Len(f3) = 0 THEN all ELSE f3

\* the workouts of the second copy of Home and of the unnamed copy
workoutsExact(all, goal, level) ==
    SelectSeq(all, LAMBDA w : w.goal = normalizedGoalOf(goal) /\ w.level = level)

\* Home: workouts, in the copy r
workoutsOf(r, all, goal, level) ==
    IF r = 1 THEN workoutsWithFallbacks(all, goal, level)
    ELSE workoutsExact(all, goal, level)

(***************************************************************************)
(* Home: the form and its change handlers                                  *)
(***************************************************************************)
\* useState: the initial form of copy r (the copies differ in activity)
initialForm(r) ==
    [name |-> <<>>, sex |-> "male", age |-> 30 * Den, heightCm |-> 175 * Den,
     weightKg |-> 90 * Den,
     activity |-> IF r = 1 THEN "light" ELSE "moderate",
     targetWeight |-> 75 * Den, weeks |-> 16 * Den, goal |-> "fat_loss",
     mealsPerDay |-> 2 * Den, dietPref |-> indian_veg, restrictions |-> <<>>]

\* the value the mealsPerDay handler stores for the entered number v
mealsPerDayOnChange(v) == Max(1 * Den, Min(5 * Den, v))

\* the weeks handler without its floor: Number(e.target.value)
weeksOnChangeRaw(v) == v

\* the value the weeks handler stores for the entered number v
weeksOnChange(v) == Max(1 * Den, v)

(***************************************************************************)
(* The calls                                                               *)
(***************************************************************************)
CallDailyCalories ==
    /\ pc = "call"
    /\ metrics' = dailyCaloriesForTarget(args)
    /\ pc' = "returned"
    /\ UNCHANGED <<events, form, dietData, workoutPlans, rev, args, allergens,
                   mealsFiltered, buildArgs, pool, plan, i, mealPlan, workouts,
                   error>>

\* Home: the allergens memo
ComputeAllergens ==
    /\ pc = "call"
    /\ allergens' = allergensOf(form.restrictions)
    /\ pc' = "allergens"
    /\ UNCHANGED <<events, form, dietData, workoutPlans, rev, args, metrics,
                   mealsFiltered, buildArgs, pool, plan, i, mealPlan, workouts,
                   error>>

\* Home: the mealsFiltered memo
ComputeMealsFiltered ==
    /\ pc = "allergens"
    /\ mealsFiltered' = mealsFilteredOf(dietData, form.dietPref, allergens)
    /\ pc' = "returned"
    /\ UNCHANGED <<events, form, dietData, workoutPlans, rev, args, metrics,
                   allergens, buildArgs, pool, plan, i, mealPlan, workouts,
                   error>>

\* Home: the workouts memo
ComputeWorkouts ==
    /\ pc = "call"
    /\ workouts' = workoutsOf(rev, workoutPlans, form.goal, levelOf(form.weeks))
    /\ pc' = "returned"
    /\ UNCHANGED <<events, form, dietData, workoutPlans, rev, args, metrics,
                   allergens, mealsFiltered, buildArgs, pool, plan, i,
                   mealPlan, error>>

(***************************************************************************)
(* Inputs                                                                  *)
(***************************************************************************)
\* the sequences without repetition over S, of length at most n
DistinctSeqs(S, n) ==
    {q \in UNION {[1..k -> S] : k \in 0..n} :
        \A a, b \in 1..Len(q) : a # b => q[a] # q[b]}

\* a tag outside DietPref
egg_free == <<"e", "g", "g", "_", "f", "r", "e", "e">>

Meals ==
    { [id |-> "m1", name |-> <<"E", "g", "g", "p", "l", "a", "n", "t">>,
       calories |-> 300, protein |-> 8, carbs |-> 30, fat |-> 12,
       tags |-> <<indian_veg, vegan>>],
      [id |-> "m2", name |-> <<"D", "a", "l">>,
       calories |-> 500, protein |-> 20, carbs |-> 60, fat |-> 10,
       tags |-> <<indian_veg, balanced>>],
      [id |-> "m3", name |-> <<"E", "g", "g", " ", "R", "o", "l", "l">>,
       calories |-> 500, protein |-> 25, carbs |-> 40, fat |-> 20,
       tags |-> <<balanced, nonveg_global>>],
      [id |-> "m4", name |-> <<"V", "e", "g">>,
       calories |-> 700, protein |-> 15, carbs |-> 90, fat |-> 25,
       tags |-> <<egg_free, vegan>>] }

MealCatalogs == DistinctSeqs(Meals, MaxCatalog)

WorkoutUniverse ==
    { [id |-> "w1", goal |-> "fat_loss",        level |-> "beginner"],
      [id |-> "w2", goal |-> "fat_loss",        level |-> "advanced"],
      [id |-> "w3", goal |-> "muscle_gain",     level |-> "intermediate"],
      [id |-> "w4", goal |-> "general_fitness", level |-> "intermediate"],
      [id |-> "w5", goal |-> "endurance",       level |-> "beginner"] }

WorkoutCatalogs == DistinctSeqs(WorkoutUniverse, MaxWorkouts)

Goal == {"fat_loss", "muscle_gain", "maintain", "endurance"}

\* the characters typed into the restrictions field
Alphabet == {"e", "g", "E", ",", " "}

Texts == UNION {[1..k -> Alphabet] : k \in 0..MaxText}

\* the numbers typed into the mealsPerDay field (in 1/Den units)
EnteredMeals == {0, 1 * Den, 2 * Den + 1, 3 * Den, 5 * Den, 7 * Den}

\* the numbers typed into the weeks field (in 1/Den units)
EnteredWeeks == {0, 1 * Den, 8 * Den, 8 * Den + 1, 20 * Den, 21 * Den}

\* the argument records of dailyCaloriesForTarget
EnergyInputs ==
    [sex : {"male", "female"},
     weightKg : {90 * Den, 60 * Den + 1, 20 * Den},
     heightCm : {175 * Den, 10 * Den},
     age : {30 * Den},
     activity : DOMAIN activityFactors,
     currentWeight : {90 * Den, 70 * Den},
     targetWeight : {75 * Den, 70 * Den, 90 * Den, 95 * Den},
     weeks : {0, 1, 1 * Den, 16 * Den, 24 * Den},
     explicitGoal : Goal]

\* activity keys that are not in activityFactors
UnknownActivities == {"couch", "Moderate"}

\* argument records with an activity key outside the table
ActivityInputs ==
    {[a EXCEPT !.activity = k] : a \in EnergyInputs, k \in UnknownActivities}

\* the argument records of buildMealPlan: the values of mealsPerDay the form
\* can hold, and 0 (no pick, an empty plan)
BuildInputs ==
    [meals : MealCatalogs,
     totalCals : {900, 1000, 2214},
     mealsPerDay : {0, 2 * Den} \cup
                   {mealsPerDayOnChange(v) : v \in EnteredMeals}]

(***************************************************************************)
(* Specifications                                                          *)
(***************************************************************************)
\* the arguments Home passes to dailyCaloriesForTarget for the form f
argsOf(f) ==
    [sex |-> f.sex, weightKg |-> f.weightKg, heightCm |-> f.heightCm,
     age |-> f.age, activity |-> f.activity, currentWeight |-> f.weightKg,
     targetWeight |-> f.targetWeight, weeks |-> f.weeks,
     explicitGoal |-> f.goal]

NoMetrics ==
    [bmr |-> 0, tdee |-> 0, targetCals |-> 0, dailyChange |-> 0, nan |-> FALSE]

NoBuildArgs == [meals |-> <<>>, totalCals |-> 0, mealsPerDay |-> 0]

\* nothing computed yet
Blank ==
    /\ metrics = NoMetrics
    /\ allergens = <<>>
    /\ mealsFiltered = <<>>
    /\ pool = <<>>
    /\ plan = <<>>
    /\ i = 0
    /\ mealPlan = NoPlan
    /\ workouts = <<>>
    /\ error = "none"
    /\ pc = "call"
    /\ events = 0

\* dailyCaloriesForTarget on every argument record
InitEnergy ==
    /\ rev = 1
    /\ form = initialForm(1)
    /\ dietData = <<>>
    /\ workoutPlans = <<>>
    /\ args \in EnergyInputs
    /\ buildArgs = NoBuildArgs
    /\ Blank

NextEnergy == CallDailyCalories

SpecEnergy == InitEnergy /\ [][NextEnergy]_vars

\* dailyCaloriesForTarget on activity keys outside the table
InitActivity ==
    /\ rev = 1
    /\ form = initialForm(1)
    /\ dietData = <<>>
    /\ workoutPlans = <<>>
    /\ args \in ActivityInputs
    /\ buildArgs = NoBuildArgs
    /\ Blank

NextActivity == CallDailyCalories

SpecActivity == InitActivity /\ [][NextActivity]_vars

\* the catalog filter on every catalog, preference and restriction text
InitFilter ==
    /\ rev = 1
    /\ \E p \in DietPref, t \in Texts :
          form = [initialForm(1) EXCEPT !.dietPref = p, !.restrictions = t]
    /\ dietData \in MealCatalogs
    /\ workoutPlans = <<>>
    /\ args = argsOf(initialForm(1))
    /\ buildArgs = NoBuildArgs
    /\ Blank

NextFilter == ComputeAllergens \/ ComputeMealsFiltered

SpecFilter == InitFilter /\ [][NextFilter]_vars

\* buildMealPlan on every pool, target and mealsPerDay of BuildInputs
InitPlan ==
    /\ rev = 1
    /\ form = initialForm(1)
    /\ dietData = <<>>
    /\ workoutPlans = <<>>
    /\ args = argsOf(initialForm(1))
    /\ buildArgs \in BuildInputs
    /\ Blank

NextPlan == BuildStart \/ BuildPick \/ BuildTotals

SpecPlan == InitPlan /\ [][NextPlan]_vars

\* the workout selection of both copies of Home on every goal and timeframe
InitWorkouts ==
    /\ rev \in {1, 2}
    /\ \E g \in Goal, v \in EnteredWeeks :
          form = [initialForm(rev) EXCEPT !.goal = g, !.weeks = weeksOnChange(v)]
    /\ dietData = <<>>
    /\ workoutPlans \in WorkoutCatalogs
    /\ args = argsOf(initialForm(rev))
    /\ buildArgs = NoBuildArgs
    /\ Blank

NextWorkouts == ComputeWorkouts

SpecWorkouts == InitWorkouts /\ [][NextWorkouts]_vars

(***************************************************************************)
(* Home: change events and renders                                         *)
(***************************************************************************)
\* the catalogs Home is built with
HomeMealCatalogs ==
    {c \in MealCatalogs :
        Len(c) = MaxCatalog /\ c[1].id = "m1" /\ c[2].id = "m2"}

HomeWorkoutCatalogs ==
    {c \in WorkoutCatalogs :
        Len(c) = MaxWorkouts /\ c[1].id = "w1" /\ c[2].id \in {"w2", "w4"}}

\* the values typed into the fields of the form (numbers in 1/Den units)
EnteredNames == {<<"E">>}

EnteredAges == {-1 * Den, 45 * Den}

EnteredHeights == {-1 * Den, 160 * Den}

EnteredWeights == {-1 * Den, 70 * Den}

EnteredTargets == {0, 95 * Den}

\* numbers below 1 (an emptied field is Number("") = 0) and two timeframes
EnteredTimeframes == {-2 * Den, 0, 1, 8 * Den, 21 * Den}

EnteredRestrictions == {<<"e", "g", "g">>, <<",", " ">>}

\* the values of the last committed render
memo ==
    [form |-> form, metrics |-> metrics, allergens |-> allergens,
     mealsFiltered |-> mealsFiltered, buildArgs |-> buildArgs,
     mealPlan |-> mealPlan, workouts |-> workouts]

NoMemo ==
    [form |-> initialForm(1), metrics |-> NoMetrics, allergens |-> <<>>,
     mealsFiltered |-> <<>>, buildArgs |-> NoBuildArgs, mealPlan |-> NoPlan,
     workouts |-> <<>>]

\* the dependency list of the workouts memo without the level
workoutsDepsGoalOnly(f) == <<f.goal>>

\* the dependency list of the workouts memo: [form.goal, level]
workoutsDeps(f) == <<f.goal, levelOf(f.weeks)>>

\* the call of buildMealPlan with the whole catalog as its meals
mealPlanArgsOfCatalog(catalog, filtered, m, f) ==
    [meals |-> catalog, totalCals |-> m.targetCals,
     mealsPerDay |-> f.mealsPerDay]

\* the arguments of the buildMealPlan call of Home: the filtered meals, the
\* target of the metrics m and mealsPerDay of the form f
mealPlanArgsOf(catalog, filtered, m, f) ==
    [meals |-> filtered, totalCals |-> m.targetCals,
     mealsPerDay |-> f.mealsPerDay]

\* one render of Home with the form f after the render prev (first: the
\* mount): each useMemo recomputes when one of its dependencies changed, an
\* array dependency changes when it was recomputed; a throw of buildMealPlan
\* ends the render and leaves nothing committed
renderOf(f, prev, first) ==
    LET m == dailyCaloriesForTarget(argsOf(f))
        algDep == first \/ f.restrictions # prev.form.restrictions
        alg == IF algDep THEN allergensOf(f.restrictions) ELSE prev.allergens
        mfDep == algDep \/ f.dietPref # prev.form.dietPref
        mf == IF mfDep THEN mealsFilteredOf(dietData, f.dietPref, alg)
                       ELSE prev.mealsFiltered
        mpDep == \/ mfDep
                 \/ m.targetCals # prev.metrics.targetCals
                 \/ f.mealsPerDay # prev.form.mealsPerDay
        a == mealPlanArgsOf(dietData, mf, m, f)
        built == buildMealPlan(a)
        wDep == first \/ workoutsDeps(f) # workoutsDeps(prev.form)
    IN  IF mpDep /\ built.threw
        THEN [prev EXCEPT !.form = f] @@ [error |-> "TypeError", pc |-> "crashed"]
        ELSE [form |-> f,
              metrics |-> m,
              allergens |-> alg,
              mealsFiltered |-> IF mpDep THEN built.meals ELSE mf,
              buildArgs |-> IF mpDep THEN a ELSE prev.buildArgs,
              mealPlan |-> IF mpDep THEN built.value ELSE prev.mealPlan,
              workouts |-> IF wDep
                           THEN workoutsOf(rev, workoutPlans, f.goal,
                                           levelOf(f.weeks))
                           ELSE prev.workouts,
              error |-> "none",
              pc |-> "rendered"]

\* the form of a handler that drops the spread: { field: v } over the
\* initial form
setFieldNoSpread(f, field, v) == [initialForm(1) EXCEPT ![field] = v]

\* the form a handler passes to setForm: { ...form, field: v }
setField(f, field, v) == [f EXCEPT ![field] = v]

\* Home is mounted and handles one more event
Mounted == pc = "rendered" /\ events < MaxEvents

\* setForm(f) and the render that follows
Change(f) ==
    /\ events' = events + 1
    /\ \E r \in {renderOf(f, memo, FALSE)} :
          /\ form' = r.form
          /\ args' = argsOf(r.form)
          /\ metrics' = r.metrics
          /\ allergens' = r.allergens
          /\ mealsFiltered' = r.mealsFiltered
          /\ buildArgs' = r.buildArgs
          /\ mealPlan' = r.mealPlan
          /\ workouts' = r.workouts
          /\ error' = r.error
          /\ pc' = r.pc
    /\ UNCHANGED <<dietData, workoutPlans, rev, pool, plan, i>>

ChangeName ==
    /\ Mounted
    /\ \E v \in EnteredNames : Change(setField(form, "name", v))

ChangeSex ==
    /\ Mounted
    /\ \E v \in {"male", "female"} : Change(setField(form, "sex", v))

ChangeAge ==
    /\ Mounted
    /\ \E v \in EnteredAges : Change(setField(form, "age", v))

ChangeHeight ==
    /\ Mounted
    /\ \E v \in EnteredHeights : Change(setField(form, "heightCm", v))

ChangeWeight ==
    /\ Mounted
    /\ \E v \in EnteredWeights : Change(setField(form, "weightKg", v))

ChangeTargetWeight ==
    /\ Mounted
    /\ \E v \in EnteredTargets : Change(setField(form, "targetWeight", v))

ChangeWeeks ==
    /\ Mounted
    /\ \E v \in EnteredTimeframes :
          Change(setField(form, "weeks", weeksOnChange(v)))

ChangeActivity ==
    /\ Mounted
    /\ \E v \in DOMAIN activityFactors : Change(setField(form, "activity", v))

\* the goal select (the second copy of Home renders none)
ChangeGoal ==
    /\ Mounted
    /\ rev = 1
    /\ \E v \in Goal : Change(setField(form, "goal", v))

ChangeMealsPerDay ==
    /\ Mounted
    /\ \E v \in EnteredMeals :
          Change(setField(form, "mealsPerDay", mealsPerDayOnChange(v)))

ChangeDietPref ==
    /\ Mounted
    /\ \E v \in DietPref : Change(setField(form, "dietPref", v))

ChangeRestrictions ==
    /\ Mounted
    /\ \E v \in EnteredRestrictions : Change(setField(form, "restrictions", v))

\* the mount of Home: the initial form and the first render
Init ==
    /\ rev \in {1, 2}
    /\ dietData \in HomeMealCatalogs
    /\ workoutPlans \in HomeWorkoutCatalogs
    /\ \E r \in {renderOf(initialForm(rev), NoMemo, TRUE)} :
          /\ form = r.form
          /\ args = argsOf(r.form)
          /\ metrics = r.metrics
          /\ allergens = r.allergens
          /\ mealsFiltered = r.mealsFiltered
          /\ buildArgs = r.buildArgs
          /\ mealPlan = r.mealPlan
          /\ workouts = r.workouts
          /\ error = r.error
          /\ pc = r.pc
    /\ pool = <<>>
    /\ plan = <<>>
    /\ i = 0
    /\ events = 0

Next ==
    \/ ChangeName
    \/ ChangeSex
    \/ ChangeAge
    \/ ChangeHeight
    \/ ChangeWeight
    \/ ChangeTargetWeight
    \/ ChangeWeeks
    \/ ChangeActivity
    \/ ChangeGoal
    \/ ChangeMealsPerDay
    \/ ChangeDietPref
    \/ ChangeRestrictions

Spec == Init /\ [][Next]_vars

(***************************************************************************)
(* Properties of dailyCaloriesForTarget (SpecEnergy)                       *)
(***************************************************************************)
\* the daily change before the cap is dailyChangeOf(args) / (Den * days)
C_days == daysOf(args.weeks)

\* the cap the specification gives to each goal
C_cap ==
    CASE args.explicitGoal = "fat_loss"    -> 1000
      [] args.explicitGoal = "muscle_gain" -> 600
      [] OTHER                             -> 0

\* C1: the returned dailyChange is the rounded daily change that was applied
\* to the target: at most 1000 in absolute value for fat_loss, at most 600
\* for muscle_gain, 0 for maintain.
C1_DailyChangeIsApplied ==
    pc = "returned" =>
        /\ metrics.dailyChange = Round(adjustedChangeOf(args), Den * C_days)
        /\ args.explicitGoal = "fat_loss" => Abs(metrics.dailyChange) <= 1000
        /\ args.explicitGoal = "muscle_gain" => Abs(metrics.dailyChange) <= 600
        /\ args.explicitGoal = "maintain" => metrics.dailyChange = 0

\* the daily change after the cap, as a numerator over Den * days, written
\* from the uncapped change and the cap of the goal
C2_applied ==
    LET dc    == (args.targetWeight - args.currentWeight) * 7700
        limit == C_cap * Den * C_days
    IN  IF dc > limit THEN limit ELSE IF dc < -limit THEN -limit ELSE dc

\* C2: targetCals is TDEE plus the capped daily change, rounded to the
\* nearest integer; it is within cap of the returned tdee, and equal to it
\* for maintain and endurance.
C2_TargetWithinCap ==
    (pc = "returned" /\ ~metrics.nan) =>
        LET bmr  == mifflin(args.sex, args.weightKg, args.heightCm, args.age)
            tdee == bmr * activityFactors[args.activity]
            \* TDEE + applied change = num / den
            num  == tdee * C_days + C2_applied * (TdeeDen \div Den)
            den  == TdeeDen * C_days
        IN  /\ 2 * metrics.targetCals * den <= 2 * num + den
            /\ 2 * metrics.targetCals * den > 2 * num - den
            /\ Abs(metrics.targetCals - metrics.tdee) <= C_cap
            /\ args.explicitGoal \in {"maintain", "endurance"} =>
                   metrics.targetCals = metrics.tdee

\* a fat_loss call whose daily change is capped: 15 kg in 16 weeks
C2_Witness ==
    /\ pc = "returned"
    /\ args.explicitGoal = "fat_loss"
    /\ args.currentWeight = 90 * Den /\ args.targetWeight = 75 * Den
    /\ args.weeks = 16 * Den
    /\ metrics.targetCals = metrics.tdee - 1000

(***************************************************************************)
(* Properties of buildMealPlan (SpecPlan)                                  *)
(***************************************************************************)
\* the call has more meals requested than the pool holds
C_Short == Len(buildArgs.meals) * Den < buildArgs.mealsPerDay

\* C3: with more meals requested than the pool holds (an empty pool
\* included) buildMealPlan fails with an InsufficientCatalog error: it puts
\* no missing entry in the plan, throws no other error and returns no plan.
C3_InsufficientCatalog ==
    C_Short =>
        /\ \A k \in 1..Len(plan) : plan[k] # Undefined
        /\ pc # "returned"
        /\ pc = "threw" => error = "InsufficientCatalog"

\* the identifiers of the entries of ms
C4_ids(ms) == [k \in 1..Len(ms) |-> ms[k].id]

\* no value occurs twice in q
C4_distinct(q) == \A a, b \in 1..Len(q) : a # b => q[a] # q[b]

\* C4: a returned plan never holds the same meal identifier twice; while the
\* plan is built, a meal that was picked is no longer in the working pool.
C4_NoDuplicateMeals ==
    /\ pc = "returned" => C4_distinct(C4_ids(mealPlan.plan))
    /\ \A a \in 1..Len(plan) :
          plan[a] # Undefined =>
              /\ \A b \in 1..Len(pool) : pool[b].id # plan[a].id
              /\ \A b \in 1..Len(plan) :
                    (b # a /\ plan[b] # Undefined) => plan[b].id # plan[a].id

\* a returned plan of two meals picked from a pool with two meals that are
\* equally near the target (m2 and m3, 500 calories each)
C4_Witness ==
    /\ pc = "returned"
    /\ Len(mealPlan.plan) = 2
    /\ {mealPlan.plan[1].id, mealPlan.plan[2].id} = {"m2", "m3"}
    /\ Len(buildArgs.meals) = 3

\* C5: for every mealsPerDay the form can hold and every pool with at least
\* mealsPerDay meals, the returned plan has exactly mealsPerDay meals, each
\* one a meal of the pool.
C5_ExactlyMealsPerDay ==
    (~C_Short /\ pc \in {"returned", "threw"}) =>
        /\ pc = "returned"
        /\ Len(mealPlan.plan) * Den = buildArgs.mealsPerDay
        /\ \A k \in 1..Len(mealPlan.plan) :
              \E j \in 1..Len(buildArgs.meals) :
                 buildArgs.meals[j] = mealPlan.plan[k]

(***************************************************************************)
(* Properties of the workout selection (SpecWorkouts)                      *)
(***************************************************************************)
\* C6: the workout selection of Home is non-empty whenever the catalog is
\* non-empty, and is the empty sequence when the catalog is empty.
C6_NeverEmpty ==
    pc = "returned" =>
        /\ Len(workoutPlans) > 0 => Len(workouts) > 0
        /\ Len(workoutPlans) = 0 => workouts = <<>>

\* the goal tag and the level the selection looks for
C7_goal == IF form.goal = "maintain" THEN "general_fitness" ELSE form.goal

C7_level ==
    CASE form.weeks <= 8 * Den  -> "beginner"
      [] form.weeks > 8 * Den /\ form.weeks <= 20 * Den -> "intermediate"
      [] OTHER -> "advanced"

C7_goalOk(w) == w.goal = C7_goal

C7_levelOk(w) == w.level = C7_level

\* the plans of the catalog that pass the test, in catalog order
C7_tier1 == SelectSeq(workoutPlans, LAMBDA w : C7_goalOk(w) /\ C7_levelOk(w))

C7_tier2 == SelectSeq(workoutPlans, C7_goalOk)

C7_tier3 == SelectSeq(workoutPlans, C7_levelOk)

\* C7: the selection of the first copy of Home is the first non-empty one of:
\* the plans matching goal and level, the plans matching the goal, the plans
\* matching the level, the whole catalog.  So when some plan matches both,
\* every selected plan matches both, and a goal match wins over a level match.
C7_FirstNonEmptyTier ==
    (pc = "returned" /\ rev = 1) =>
        /\ C7_tier1 # <<>> => workouts = C7_tier1
        /\ (C7_tier1 = <<>> /\ C7_tier2 # <<>>) => workouts = C7_tier2
        /\ (C7_tier1 = <<>> /\ C7_tier2 = <<>> /\ C7_tier3 # <<>>) =>
               workouts = C7_tier3
        /\ (C7_tier1 = <<>> /\ C7_tier2 = <<>> /\ C7_tier3 = <<>>) =>
               workouts = workoutPlans
        /\ (\E k \in 1..Len(workoutPlans) :
               C7_goalOk(workoutPlans[k]) /\ C7_levelOk(workoutPlans[k])) =>
               \A k \in 1..Len(workouts) :
                  C7_goalOk(workouts[k]) /\ C7_levelOk(workouts[k])

\* no plan matches both, one matches the goal only and another one the level
\* only: the goal match is selected
C7_Witness ==
    /\ pc = "returned" /\ rev = 1
    /\ C7_tier1 = <<>> /\ C7_tier2 # <<>> /\ C7_tier3 # <<>>
    /\ workouts = C7_tier2

(***************************************************************************)
(* Properties of the catalog filter (SpecFilter)                           *)
(***************************************************************************)
\* C8: the catalog filter is idempotent: applied to its own output with the
\* same preference and allergens it returns the same sequence of meals.
C8_FilterIdempotent ==
    pc = "returned" =>
        mealsFilteredOf(mealsFiltered, form.dietPref, allergens) = mealsFiltered

\* the filter dropped a meal for its tags and another one for an allergen,
\* and kept a meal
C8_Witness ==
    /\ pc = "returned"
    /\ mealsFiltered # <<>>
    /\ Len(filterMeals(dietData, form.dietPref)) < Len(dietData)
    /\ Len(mealsFiltered) < Len(filterMeals(dietData, form.dietPref))

\* the lower-case form of a character
C9_lower(c) ==
    CASE c = "E" -> "e" [] c = "D" -> "d" [] c = "R" -> "r" [] c = "V" -> "v"
      [] OTHER -> c

C9_lowered(t) == [k \in 1..Len(t) |-> C9_lower(t[k])]

\* the positions of the commas of the restriction text
C9_commas == {k \in 1..Len(form.restrictions) : form.restrictions[k] = ","}

\* the positions where an entry of the restriction text starts
C9_starts == {1} \cup {k + 1 : k \in C9_commas}

\* the last position of the entry that starts at b
C9_end(b) ==
    LET later == {k \in C9_commas : k >= b}
    IN  IF later = {} THEN Len(form.restrictions)
        ELSE (CHOOSE k \in later : \A j \in later : k <= j) - 1

\* the positions of the entry that starts at b that hold no white space
C9_solid(b) == {k \in b..C9_end(b) : form.restrictions[k] # " "}

\* the entries that are not empty once trimmed
C9_kept == {b \in C9_starts : C9_solid(b) # {}}

\* the entry that starts at b, trimmed and lower-cased
C9_entry(b) ==
    LET first == CHOOSE k \in C9_solid(b) : \A j \in C9_solid(b) : k <= j
        last  == CHOOSE k \in C9_solid(b) : \A j \in C9_solid(b) : k >= j
    IN  C9_lowered(SubSeq(form.restrictions, first, last))

\* the text of the tags, each one after a space
RECURSIVE C9_tagText(_)
C9_tagText(tags) ==
    IF tags = <<>> THEN <<>> ELSE <<" ">> \o tags[1] \o C9_tagText(Tail(tags))

\* the lower-cased text made of the name of the meal followed by its tags
C9_text(m) == C9_lowered(m.name \o C9_tagText(m.tags))

\* a occurs in t at some offset
C9_occurs(a, t) ==
    \E off \in 0..(Len(t) - Len(a)) : \A k \in 1..Len(a) : t[off + k] = a[k]

\* at least one allergen of the list occurs in the text of the meal
C9_excluded(m) == \E j \in 1..Len(allergens) : C9_occurs(allergens[j], C9_text(m))

\* C9: the allergen list is the restriction text split on commas, each entry
\* trimmed and lower-cased, the empty entries dropped; a meal that passes
\* the preference test is excluded exactly when some allergen occurs in the
\* lower-cased text of its name and tags.  The match is by substring ('egg'
\* excludes 'Eggplant') and ignores case, and a text of commas and spaces
\* excludes nothing.
C9_AllergenExclusion ==
    /\ pc \in {"allergens", "returned"} =>
          /\ Len(allergens) = Cardinality(C9_kept)
          /\ \A b \in C9_kept :
                allergens[Cardinality({x \in C9_kept : x <= b})] = C9_entry(b)
          /\ form.restrictions \in {<<"e", "g", "g">>, <<"E", "g", "g">>} =>
                allergens = <<(<<"e", "g", "g">>)>>
          /\ (\A k \in 1..Len(form.restrictions) :
                 form.restrictions[k] \in {",", " "}) => allergens = <<>>
    /\ pc = "returned" =>
          LET base == filterMeals(dietData, form.dietPref)
          IN  /\ mealsFiltered = SelectSeq(base, LAMBDA m : ~C9_excluded(m))
              /\ allergens = <<(<<"e", "g", "g">>)>> =>
                    \A k \in 1..Len(mealsFiltered) : mealsFiltered[k].id # "m1"
              /\ allergens = <<>> => mealsFiltered = base

\* 'Egg' was entered and the meal named Eggplant, which has the preferred
\* tag, was excluded while another meal was kept
C9_Witness ==
    /\ pc = "returned"
    /\ form.restrictions = <<"E", "g", "g">>
    /\ form.dietPref = indian_veg
    /\ \E k \in 1..Len(dietData) : dietData[k].id = "m1"
    /\ \A k \in 1..Len(mealsFiltered) : mealsFiltered[k].id # "m1"
    /\ mealsFiltered # <<>>

\* the tags of m contain t
C10_hasTag(m, t) == t \in {m.tags[k] : k \in 1..Len(m.tags)}

\* C10: filterMeals keeps exactly the meals whose tags contain the
\* preference: the clauses for 'balanced' and 'nonveg_global' add and remove
\* nothing.
C10_PlainTagInclusion ==
    /\ filterMeals(dietData, form.dietPref) =
          SelectSeq(dietData, LAMBDA m : C10_hasTag(m, form.dietPref))
    /\ (pc = "returned" /\ allergens = <<>>) =>
          mealsFiltered =
              SelectSeq(dietData, LAMBDA m : C10_hasTag(m, form.dietPref))

\* the filter ran for 'nonveg_global' on a catalog with a meal tagged
\* 'balanced' only, dropped it and kept a meal
C10_Witness ==
    /\ pc = "returned"
    /\ allergens = <<>>
    /\ form.dietPref = nonveg_global
    /\ \E k \in 1..Len(dietData) : dietData[k].id = "m2"
    /\ Len(mealsFiltered) = 1
    /\ mealsFiltered[1].id = "m3"

(***************************************************************************)
(* Properties of the energy model (SpecEnergy, SpecActivity)               *)
(***************************************************************************)
\* r is n/d rounded to the nearest integer, a half rounded up (d > 0)
C_isRounded(r, n, d) == 2 * r * d <= 2 * n + d /\ 2 * r * d > 2 * n - d

\* the keys of the multiplier table
C_activities == {"sedentary", "light", "moderate", "active", "very"}

\* the multiplier of the activity level, in thousandths
C11_mult ==
    CASE args.activity = "sedentary" -> 1200
      [] args.activity = "light"     -> 1375
      [] args.activity = "moderate"  -> 1550
      [] args.activity = "active"    -> 1725
      [] args.activity = "very"      -> 1900

\* 10*weight + 6.25*height - 5*age, as a numerator over 4 * Den
C_base == 40 * args.weightKg + 25 * args.heightCm - 20 * args.age

\* the BMR before rounding, as a numerator over 4 * Den
C11_bmr ==
    IF args.sex = "male" THEN C_base + 5 * 4 * Den ELSE C_base - 161 * 4 * Den

\* C11: bmr is round(10*weight + 6.25*height - 5*age + 5) for male and
\* round(... - 161) for female; tdee is the unrounded BMR times the
\* multiplier of the activity level, rounded; the returned tdee is the
\* returned bmr times the multiplier up to the two roundings.
C11_BmrTdeeFormulas ==
    (pc = "returned" /\ args.activity \in C_activities) =>
        /\ C_isRounded(metrics.bmr, C11_bmr, 4 * Den)
        /\ C_isRounded(metrics.tdee, C11_bmr * C11_mult, 4 * Den * 1000)
        /\ 2 * Abs(1000 * metrics.tdee - metrics.bmr * C11_mult)
              <= 1000 + C11_mult

\* a female profile: 900 + 1093.75 - 150 - 161 = 1682.75, times 1.725
C11_Witness ==
    /\ pc = "returned"
    /\ args.sex = "female" /\ args.weightKg = 90 * Den
    /\ args.heightCm = 175 * Den /\ args.age = 30 * Den
    /\ args.activity = "active"
    /\ metrics.bmr = 1683 /\ metrics.tdee = 2903

\* the profile is valid: positive whole age, positive height and weight, an
\* activity level of the table
C12_valid ==
    /\ args.sex \in {"male", "female"}
    /\ args.age > 0 /\ args.age % Den = 0
    /\ args.heightCm > 0 /\ args.weightKg > 0
    /\ args.activity \in C_activities

\* C12 as stated: for every valid profile the returned bmr and tdee are
\* non-negative.
C12_NonNegative ==
    (pc = "returned" /\ C12_valid) => (metrics.bmr >= 0 /\ metrics.tdee >= 0)

\* C12: for every valid profile with 10*weight + 6.25*height - 5*age >= 161
\* the returned bmr and tdee are non-negative.
C12_NonNegativeAbove161 ==
    (pc = "returned" /\ C12_valid /\ C_base >= 161 * 4 * Den) =>
        (metrics.bmr >= 0 /\ metrics.tdee >= 0)

\* a light female profile above the threshold: 200 + 1093.75 - 150 - 161
C12_Witness ==
    /\ pc = "returned" /\ C12_valid
    /\ args.sex = "female" /\ args.weightKg = 20 * Den
    /\ args.heightCm = 175 * Den
    /\ C_base >= 161 * 4 * Den
    /\ metrics.bmr = 983

\* max(1, round(weeks * 7)), from the weeks in 1/Den units
C13_days ==
    IF 14 * args.weeks < Den THEN 1 ELSE (14 * args.weeks + Den) \div (2 * Den)

\* C13: days = max(1, round(weeks*7)) is at least 1 for every weeks, 0 and
\* anything below 1/14 included: the call returns, and for weeks = 0 the
\* daily change is the whole change (days = 1).
C13_DaysAtLeastOne ==
    /\ daysOf(args.weeks) >= 1
    /\ daysOf(args.weeks) = C13_days
    /\ pc = "returned" =>
          /\ error = "none"
          /\ C_isRounded(metrics.dailyChange,
                         (args.targetWeight - args.currentWeight) * 7700,
                         Den * C13_days)
          /\ args.weeks = 0 =>
                C_isRounded(metrics.dailyChange,
                            (args.targetWeight - args.currentWeight) * 7700, Den)

\* weeks = 0 and 15 kg to lose: the daily change is the whole -115500
C13_Witness ==
    /\ pc = "returned"
    /\ args.weeks = 0
    /\ args.currentWeight = 90 * Den /\ args.targetWeight = 75 * Den
    /\ metrics.dailyChange = -115500

\* C14: a call with an activity key outside the multiplier table is rejected
\* with an UnknownActivityLevel error; it never returns metrics whose tdee
\* or targetCals is NaN.
C14_UnknownActivityRejected ==
    args.activity \notin C_activities =>
        /\ pc # "returned"
        /\ ~metrics.nan
        /\ pc = "threw" => error = "UnknownActivityLevel"

\* the profile of the scenario
C19_profile ==
    [sex |-> "male", age |-> 30 * Den, heightCm |-> 175 * Den,
     weightKg |-> 90 * Den, activity |-> "moderate",
     currentWeight |-> 90 * Den, targetWeight |-> 75 * Den,
     weeks |-> 16 * Den, explicitGoal |-> "fat_loss"]

\* C19: for the profile of the scenario bmr is 1849, days is 112, the daily
\* change before the cap is -1031.25, after the cap -1000, and targetCals is
\* the returned tdee minus 1000.
C19_Scenario ==
    (pc = "returned" /\ args = C19_profile) =>
        /\ metrics.bmr = 1849
        /\ daysOf(args.weeks) = 112
        /\ 4 * dailyChangeOf(args) = (-4125) * Den * 112
        /\ adjustedChangeOf(args) = (-1000) * Den * 112
        /\ metrics.targetCals = metrics.tdee - 1000

\* the call of the scenario returned: 1848.75 * 1.55 = 2865.56
C19_Witness ==
    /\ pc = "returned" /\ args = C19_profile
    /\ metrics.tdee = 2866 /\ metrics.targetCals = 1866

(***************************************************************************)
(* Properties of the lookup key of the workout selection (SpecWorkouts)    *)
(***************************************************************************)
\* the level for the weeks of the form (in 1/Den units)
C18_level ==
    CASE form.weeks <= 8 * Den -> "beginner"
      [] 8 * Den < form.weeks /\ form.weeks <= 20 * Den -> "intermediate"
      [] 20 * Den < form.weeks -> "advanced"

\* the goal tag for the goal of the form
C18_goal ==
    CASE form.goal = "maintain" -> "general_fitness"
      [] form.goal \in {"fat_loss", "muscle_gain", "endurance"} -> form.goal

\* the plans of the catalog with the goal tag and the level of the key
C18_exact ==
    SelectSeq(workoutPlans,
              LAMBDA w : w.goal = C18_goal /\ w.level = C18_level)

\* C18: the level is beginner for weeks <= 8, intermediate for 8 < weeks <=
\* 20 and advanced above 20; the goal tag is general_fitness for maintain
\* and the goal itself otherwise.  The selection looks the catalog up with
\* this key.
C18_LookupKey ==
    /\ levelOf(form.weeks) = C18_level
    /\ normalizedGoalOf(form.goal) = C18_goal
    /\ (pc = "returned" /\ rev = 2) => workouts = C18_exact
    /\ (pc = "returned" /\ rev = 1 /\ C18_exact # <<>>) => workouts = C18_exact

\* maintain at exactly 20 weeks selects the intermediate general_fitness plan
C18_Witness ==
    /\ pc = "returned"
    /\ form.goal = "maintain" /\ form.weeks = 20 * Den
    /\ Len(workouts) = 1
    /\ workouts[1].goal = "general_fitness"
    /\ workouts[1].level = "intermediate"
    /\ Len(workoutPlans) = 2

(***************************************************************************)
(* Properties of Home under change events (Spec)                           *)
(***************************************************************************)
\* a required numeric field of the form is negative or out of its range
C15_invalid ==
    \/ form.age < 0
    \/ form.heightCm < 0
    \/ form.weightKg < 0
    \/ form.mealsPerDay < 1 * Den
    \/ form.mealsPerDay > 5 * Den
    \/ form.weeks < 1 * Den

\* C15: a profile with a negative or out-of-range numeric field is surfaced
\* as an InvalidProfile error (the value is neither kept silently nor
\* replaced by a clamped one).
C15_InvalidProfileSurfaced == C15_invalid => error = "InvalidProfile"

\* after a committed render the sequence handed to buildMealPlan is still, in
\* Home, the output of the filter for the form
C17_inputKept ==
    pc = "rendered" =>
        /\ mealsFiltered = buildArgs.meals
        /\ mealsFiltered =
              SelectSeq(dietData,
                        LAMBDA m : /\ C10_hasTag(m, form.dietPref)
                                   /\ ~C9_excluded(m))

C17_catalogsKept == dietData' = dietData /\ workoutPlans' = workoutPlans

\* C17: no operation modifies the catalogs or its inputs: every change event
\* with its filter, allergen exclusion, buildMealPlan and workout selection
\* leaves the meal catalog and the workout catalog as they were, and the
\* filtered sequence passed to buildMealPlan has, after the call, the
\* elements it had before in the same order (the picks are removed from the
\* private pool only).
C17_NoMutation == []C17_inputKept /\ [][C17_catalogsKept]_vars

\* a plan was picked after a change event, the picked meals are still in the
\* filtered sequence and a workout was selected
C17_Witness ==
    /\ pc = "rendered"
    /\ events > 0
    /\ Len(mealPlan.plan) = 2
    /\ \A k \in 1..Len(mealPlan.plan) :
          \E j \in 1..Len(mealsFiltered) : mealsFiltered[j] = mealPlan.plan[k]
    /\ workouts # <<>>

\* C20: in every state reachable from the initial form by change events
\* (any field, any entered number, 0, negative numbers and an emptied field
\* included), form.weeks >= 1.
C20_WeeksAtLeastOne == form.weeks >= 1 * Den

\* a number below 1 was entered in the weeks field (EnteredTimeframes holds
\* no 1): the form holds 1
C20_Witness ==
    /\ pc = "rendered"
    /\ events > 0
    /\ form.weeks = 1 * Den

\* C21: in every state reachable from the initial form by change events (any
\* entered number: fractional values such as 2.5, values below 1 and above 5,
\* an emptied field), form.mealsPerDay is an integer between 1 and 5.
C21_MealsPerDayInteger ==
    /\ form.mealsPerDay % Den = 0
    /\ form.mealsPerDay >= 1 * Den
    /\ form.mealsPerDay <= 5 * Den

(***************************************************************************)
(* Properties of the picks and totals of buildMealPlan (SpecPlan)          *)
(***************************************************************************)
\* |calories - perMeal| of the meal m for perMeal = totalCals / mealsPerDay,
\* scaled by mealsPerDay (positive when a pick is made)
C22_dist(m) ==
    Abs(m.calories * buildArgs.mealsPerDay - buildArgs.totalCals * Den)

\* the position in the current pool of the earliest element at the least
\* distance
C22_nearest(k) ==
    /\ \A j \in 1..Len(pool) : C22_dist(pool[k]) <= C22_dist(pool[j])
    /\ \A j \in 1..(k - 1) : C22_dist(pool[j]) > C22_dist(pool[k])

\* a pick from a pool that is not empty
C22_pick ==
    (pc = "loop" /\ i' = i + 1 /\ pool # <<>>) =>
        \E k \in 1..Len(pool) :
            /\ C22_nearest(k)
            /\ plan' = Append(plan, pool[k])
            /\ pool' = [j \in 1..(Len(pool) - 1) |->
                           IF j < k THEN pool[j] ELSE pool[j + 1]]
            /\ buildArgs'.totalCals = buildArgs.totalCals
            /\ buildArgs'.mealsPerDay = buildArgs.mealsPerDay

\* C22: at each pick buildMealPlan moves to the plan the element of the
\* current pool whose |calories - perMeal| is smallest, perMeal =
\* totalCals / mealsPerDay being fixed for the whole call; among several
\* elements at the same smallest distance the earliest in the current pool
\* order is picked.
C22_NearestFirst == [][C22_pick]_vars

\* the first pick from a pool that starts with m3 and m2, both 500 calories
\* and both at distance 0 of perMeal = 1000 / 2: m3, the earlier one
C22_Witness ==
    /\ pc = "loop"
    /\ buildArgs.totalCals = 1000
    /\ buildArgs.mealsPerDay = 2 * Den
    /\ Len(buildArgs.meals) >= 2
    /\ buildArgs.meals[1].id = "m3"
    /\ buildArgs.meals[2].id = "m2"
    /\ Len(plan) = 1
    /\ plan[1].id = "m3"

\* the sum of the field f over the first n meals of ms
RECURSIVE C23_sum(_, _, _)
C23_sum(ms, f, n) == IF n = 0 THEN 0 ELSE C23_sum(ms, f, n - 1) + ms[n][f]

C23_fields == {"calories", "protein", "carbs", "fat"}

\* C23: for every plan returned by buildMealPlan, totals.calories,
\* totals.protein, totals.carbs and totals.fat are the sums of these fields
\* over the meals of the returned plan, and all four are 0 for an empty plan.
C23_TotalsAreSums ==
    pc = "returned" =>
        /\ DOMAIN mealPlan.totals = C23_fields
        /\ \A f \in C23_fields :
              mealPlan.totals[f] =
                  C23_sum(mealPlan.plan, f, Len(mealPlan.plan))
        /\ mealPlan.plan = <<>> =>
              \A f \in C23_fields : mealPlan.totals[f] = 0

\* a returned plan of m1 and m4: 300 + 700 calories, 8 + 15 protein,
\* 30 + 90 carbs, 12 + 25 fat
C23_Witness ==
    /\ pc = "returned"
    /\ {mealPlan.plan[k].id : k \in 1..Len(mealPlan.plan)} = {"m1", "m4"}
    /\ mealPlan.totals =
          [calories |-> 1000, protein |-> 23, carbs |-> 120, fat |-> 37]

\* a returned empty plan (mealsPerDay = 0) with totals 0
C23_EmptyPlan ==
    /\ pc = "returned"
    /\ mealPlan.plan = <<>>
    /\ buildArgs.meals # <<>>

(***************************************************************************)
(* Properties of the order of the catalog filter's output (SpecFilter)     *)
(***************************************************************************)
\* C24: the output of the catalog filter (preference filter and allergen
\* exclusion) is a subsequence of the catalog: only catalog meals, each at
\* most once, in the relative order of the catalog; it may be empty.
C24_Subsequence ==
    pc = "returned" =>
        \E at24 \in [1..Len(mealsFiltered) -> 1..Len(dietData)] :
            /\ \A k \in 1..Len(mealsFiltered) :
                  dietData[at24[k]] = mealsFiltered[k]
            /\ \A k \in 1..(Len(mealsFiltered) - 1) : at24[k] < at24[k + 1]

\* the first and the third meal of a catalog of three are kept, the second
\* is dropped
C24_Witness ==
    /\ pc = "returned"
    /\ Len(dietData) = 3
    /\ mealsFiltered = <<dietData[1], dietData[3]>>

\* an empty output for a catalog with a meal of the preference: the
\* allergens exclude every match
C24_EmptyOutput ==
    /\ pc = "returned"
    /\ mealsFiltered = <<>>
    /\ filterMeals(dietData, form.dietPref) # <<>>

(***************************************************************************)
(* Properties of the renders of Home (Spec)                                *)
(***************************************************************************)
\* the meal plan of the form: buildMealPlan on the filtered meals of the
\* form, the target of its metrics and its mealsPerDay
C25_mealPlan ==
    buildMealPlan(
        [meals |-> mealsFilteredOf(dietData, form.dietPref,
                                   allergensOf(form.restrictions)),
         totalCals |-> dailyCaloriesForTarget(argsOf(form)).targetCals,
         mealsPerDay |-> form.mealsPerDay]).value

\* C25: after any sequence of change events the displayed metrics, filtered
\* meals, meal plan and workout list are the core functions applied to the
\* current form: no memoized value is stale.
C25_NothingStale ==
    pc = "rendered" =>
        /\ metrics = dailyCaloriesForTarget(argsOf(form))
        /\ allergens = allergensOf(form.restrictions)
        /\ mealsFiltered =
              mealsFilteredOf(dietData, form.dietPref,
                              allergensOf(form.restrictions))
        /\ mealPlan = C25_mealPlan
        /\ workouts =
              workoutsOf(rev, workoutPlans, form.goal, levelOf(form.weeks))

\* two events later: the timeframe moved to the beginner level and the
\* preference to vegan; the workouts and the plan follow the form while the
\* allergens memo was reused
C25_Witness ==
    /\ pc = "rendered"
    /\ events = 2
    /\ form.weeks = 8 * Den
    /\ form.dietPref = vegan
    /\ form.restrictions = <<>>
    /\ Len(workouts) = 1
    /\ workouts[1].level = "beginner"
    /\ Len(mealPlan.plan) = 2
    /\ \A k \in 1..2 : C10_hasTag(mealPlan.plan[k], vegan)

\* the handlers of the fields the workout selection does not read
C26_notGoalNorWeeks ==
    \/ ChangeName
    \/ ChangeSex
    \/ ChangeAge
    \/ ChangeHeight
    \/ ChangeWeight
    \/ ChangeTargetWeight
    \/ ChangeActivity
    \/ ChangeMealsPerDay
    \/ ChangeDietPref
    \/ ChangeRestrictions

\* the handlers of the fields the catalog filter does not read
C26_notPrefNorRestrictions ==
    \/ ChangeName
    \/ ChangeSex
    \/ ChangeAge
    \/ ChangeHeight
    \/ ChangeWeight
    \/ ChangeTargetWeight
    \/ ChangeWeeks
    \/ ChangeActivity
    \/ ChangeGoal
    \/ ChangeMealsPerDay

\* a step that changes the workout selection (the filtered meals) is no step
\* of a handler of a field outside goal and weeks (preference, restrictions)
C26_frame ==
    pc' = "rendered" =>
        /\ workouts' # workouts => ~C26_notGoalNorWeeks
        /\ mealsFiltered' # mealsFiltered => ~C26_notPrefNorRestrictions

\* C26: a form change to a field other than goal and weeks leaves the workout
\* selection unchanged, and a change to a field other than diet preference
\* and restrictions leaves the filtered meal sequence unchanged.
C26_PipelinesIndependent == [][C26_frame]_vars

\* after a change of the timeframe and then of mealsPerDay the workouts of
\* the new level and the filtered meals of the mount are displayed
C26_Witness ==
    /\ pc = "rendered"
    /\ events = 2
    /\ form.weeks = 21 * Den
    /\ form.mealsPerDay = 1 * Den
    /\ Len(workouts) >= 1
    /\ workouts[1].level = "advanced"
    /\ Len(mealsFiltered) = 2
    /\ Len(mealPlan.plan) = 1

\* the allergen substrings entered in the form
C28_allergens == {C9_entry(b) : b \in C9_kept}

\* the meal m carries the preference of the form and contains no allergen of
\* the form
C28_allowed(m) ==
    /\ C10_hasTag(m, form.dietPref)
    /\ \A a \in C28_allergens : ~C9_occurs(a, C9_text(m))

\* C28: in every form state where a meal plan is displayed every meal of the
\* plan carries the selected diet preference in its tags and contains none
\* of the entered allergen substrings in its lower-cased name and tags.
C28_PlanFromFilteredPool ==
    pc = "rendered" =>
        \A k \in 1..Len(mealPlan.plan) : C28_allowed(mealPlan.plan[k])

\* 'egg' is entered, the catalog holds Eggplant with the preferred tag, and
\* the displayed plan is the one meal that is left
C28_Witness ==
    /\ pc = "rendered"
    /\ form.restrictions = <<"e", "g", "g">>
    /\ form.dietPref = indian_veg
    /\ dietData[1].id = "m1"
    /\ Len(mealPlan.plan) = 1
    /\ mealPlan.plan[1].id = "m2"

(***************************************************************************)
(* Properties of the returned plan of buildMealPlan (SpecPlan)             *)
(***************************************************************************)
\* the meals of the pool that are not in the returned plan
C27_leftOut ==
    {buildArgs.meals[k] : k \in 1..Len(buildArgs.meals)} \
    {mealPlan.plan[k] : k \in 1..Len(mealPlan.plan)}

\* C27: for every pool with at least mealsPerDay meals the returned plan
\* lists its meals in non-decreasing order of |calories - perMeal|, and no
\* meal left out of the plan is strictly closer to perMeal than a meal of
\* the plan.
C27_NearestMeals ==
    (pc = "returned" /\ ~C_Short) =>
        /\ \A k \in 1..(Len(mealPlan.plan) - 1) :
              C22_dist(mealPlan.plan[k]) <= C22_dist(mealPlan.plan[k + 1])
        /\ \A m \in C27_leftOut :
              \A k \in 1..Len(mealPlan.plan) :
                  C22_dist(m) >= C22_dist(mealPlan.plan[k])

\* perMeal = 900 / 2 = 450 and the pool m4, m1, m2 (700, 300, 500 calories):
\* the plan is m2 then m1, and m4, the farthest, is left out
C27_Witness ==
    /\ pc = "returned"
    /\ buildArgs.totalCals = 900
    /\ buildArgs.mealsPerDay = 2 * Den
    /\ Len(buildArgs.meals) = 3
    /\ buildArgs.meals[1].id = "m4"
    /\ Len(mealPlan.plan) = 2
    /\ mealPlan.plan[1].id = "m2"
    /\ mealPlan.plan[2].id = "m1"

(***************************************************************************)
(* Properties of the direction of the calorie change (SpecEnergy)          *)
(***************************************************************************)
\* the sign of n: -1, 0 or 1
C29_sign(n) == IF n < 0 THEN -1 ELSE IF n > 0 THEN 1 ELSE 0

\* C29: for the goals fat_loss and muscle_gain the clamped change is negative
\* exactly when targetWeight < currentWeight, positive exactly when
\* targetWeight > currentWeight and zero when they are equal; so targetCals
\* >= round(TDEE) whenever targetWeight >= currentWeight (under fat_loss
\* too) and targetCals <= round(TDEE) whenever targetWeight <=
\* currentWeight (under muscle_gain too).
C29_DirectionFollowsDelta ==
    args.explicitGoal \in {"fat_loss", "muscle_gain"} =>
        /\ C29_sign(adjustedChangeOf(args)) =
              C29_sign(args.targetWeight - args.currentWeight)
        /\ pc = "returned" =>
              /\ args.targetWeight >= args.currentWeight =>
                    metrics.targetCals >= metrics.tdee
              /\ args.targetWeight <= args.currentWeight =>
                    metrics.targetCals <= metrics.tdee

\* a surplus under fat_loss: the target weight is above the current one and
\* the target calories are above the rounded TDEE
C29_Witness ==
    /\ pc = "returned"
    /\ args.explicitGoal = "fat_loss"
    /\ args.weeks = 16 * Den
    /\ args.targetWeight > args.currentWeight
    /\ metrics.targetCals > metrics.tdee

\* a deficit under muscle_gain
C29_DeficitUnderGain ==
    /\ pc = "returned"
    /\ args.explicitGoal = "muscle_gain"
    /\ args.targetWeight < args.currentWeight
    /\ metrics.targetCals < metrics.tdee

====
